---- MODULE Spec2Model ----
(***************************************************************************)
(* A model of cog_validator: validate_cloudgeotiff (src/src/validator.rs)  *)
(* and the VSIFile byte accessor it reads through (src/src/vsi.rs).        *)
(*                                                                         *)
(* One behaviour is one validation run.  The raster backend (GDAL) and the *)
(* file are the environment: every answer they give (driver name, file     *)
(* list, band geometry, TIFF tag strings, the result of a seek, read or    *)
(* close, the bytes read) is drawn from a small set when the code asks.    *)
(*                                                                         *)
(* u64 values are kept at their full width as four 16-bit limbs, most      *)
(* significant first, so that 2^64 - 1 and the wrap-around at 2^64 are the *)
(* real ones.  Strings are tuples of one-character strings.                *)
(***************************************************************************)
EXTENDS Integers, Sequences, FiniteSets, TLC

VARIABLES
    pc,               \* position of the run inside validate_cloudgeotiff / _validate
    outcome,          \* what the run returned (kind "none" while it is running)
    overflow_checks,  \* build profile: TRUE = arithmetic overflow panics, FALSE = it wraps
    dst,              \* what the backend reported about the dataset
    f,                \* the VSIFile handle
    band,             \* the band being walked: name, role, overview index, geometry
    x, y,             \* loop variables of _validate_band
    last_offset,      \* the local of _validate_band handed to every _validate_block
    tile,             \* the last tile _validate_block looked at, with what it read
    walked,           \* the bands handed to _validate_band so far, in order
    warned            \* the advisory of _check_main_band was printed

vars == <<pc, outcome, overflow_checks, dst, f, band, x, y, last_offset, tile, walked, warned>>

-----------------------------------------------------------------------------
(* Bounds of the model *)

\* the largest overview count the backend reports
MaxOvr == 2

-----------------------------------------------------------------------------
(* u64 arithmetic on limbs *)

Base == 256 * 256

\* a small natural number (below 2^31) as a u64
FromNat(n) == <<0, 0, n \div Base, n % Base>>

U64Zero == FromNat(0)

U64Lt(a, b) ==
    \/ a[1] < b[1]
    \/ a[1] = b[1] /\ a[2] < b[2]
    \/ a[1] = b[1] /\ a[2] = b[2] /\ a[3] < b[3]
    \/ a[1] = b[1] /\ a[2] = b[2] /\ a[3] = b[3] /\ a[4] < b[4]

U64Gt(a, b) == U64Lt(b, a)

U64Ge(a, b) == ~U64Lt(a, b)

\* a + b modulo 2^64, and whether the true sum did not fit
U64Add(a, b) ==
    LET s4 == a[4] + b[4]
        s3 == a[3] + b[3] + s4 \div Base
        s2 == a[2] + b[2] + s3 \div Base
        s1 == a[1] + b[1] + s2 \div Base
    IN  [val |-> <<s1 % Base, s2 % Base, s3 % Base, s4 % Base>>,
         overflow |-> s1 \div Base > 0]

\* a - b modulo 2^64, and whether the true difference was negative
U64Sub(a, b) ==
    LET d4 == a[4] - b[4]
        b4 == IF d4 < 0 THEN 1 ELSE 0
        d3 == a[3] - b[3] - b4
        b3 == IF d3 < 0 THEN 1 ELSE 0
        d2 == a[2] - b[2] - b3
        b2 == IF d2 < 0 THEN 1 ELSE 0
        d1 == a[1] - b[1] - b2
        b1 == IF d1 < 0 THEN 1 ELSE 0
    IN  [val |-> <<(d1 + Base) % Base, (d2 + Base) % Base,
                   (d3 + Base) % Base, (d4 + Base) % Base>>,
         overflow |-> b1 = 1]

\* v * 10 + d with the checked_mul / checked_add of the integer parser
U64Mul10Add(v, d) ==
    LET s4 == v[4] * 10 + d
        s3 == v[3] * 10 + s4 \div Base
        s2 == v[2] * 10 + s3 \div Base
        s1 == v[1] * 10 + s2 \div Base
    IN  [val |-> <<s1 % Base, s2 % Base, s3 % Base, s4 % Base>>,
         overflow |-> s1 \div Base > 0]

-----------------------------------------------------------------------------
(* Strings *)

Digits == <<"0", "1", "2", "3", "4", "5", "6", "7", "8", "9">>

\* the value of a decimal digit, -1 for any other character
DigitOf(c) ==
    IF \E i \in 1..10 : Digits[i] = c
    THEN (CHOOSE i \in 1..10 : Digits[i] = c) - 1
    ELSE -1

\* str::ends_with
EndsWith(s, suffix) ==
    /\ Len(s) >= Len(suffix)
    /\ SubSeq(s, Len(s) - Len(suffix) + 1, Len(s)) = suffix

DotOvr == <<".", "o", "v", "r">>

RECURSIVE ParseDigits(_, _)
\* the digit loop of u64::from_str: InvalidDigit on a non-digit, PosOverflow
\* when the value leaves the u64 range
ParseDigits(s, acc) ==
    IF s = <<>> THEN [ok |-> TRUE, val |-> acc]
    ELSE IF DigitOf(Head(s)) < 0 THEN [ok |-> FALSE, val |-> U64Zero]
    ELSE LET m == U64Mul10Add(acc, DigitOf(Head(s)))
         IN  IF m.overflow THEN [ok |-> FALSE, val |-> U64Zero]
             ELSE ParseDigits(Tail(s), m.val)

\* str::parse::<u64>: Empty on "", InvalidDigit on a lone sign, one leading
\* "+" accepted, "-" never accepted for an unsigned type
ParseU64(s) ==
    IF s = <<>> THEN [ok |-> FALSE, val |-> U64Zero]
    ELSE IF Len(s) = 1 /\ Head(s) \in {"+", "-"} THEN [ok |-> FALSE, val |-> U64Zero]
    ELSE IF Head(s) = "+" THEN ParseDigits(Tail(s), U64Zero)
    ELSE ParseDigits(s, U64Zero)

\* i.parse::<u64>().unwrap_or(0)
ParseOrZero(s) == IF ParseU64(s).ok THEN ParseU64(s).val ELSE U64Zero

-----------------------------------------------------------------------------
(* Results *)

NoCoord == 0 - 1

\* what a call returns: Ok(value) or an error of ValidateCOGError with the
\* fields it carries
Result(kind, band_name, tx, ty, leader_size, byte_count) ==
    [kind |-> kind, value |-> FALSE, band_name |-> band_name, x |-> tx, y |-> ty,
     leader_size |-> leader_size, byte_count |-> byte_count]

\* no result yet
Running == Result("none", "", NoCoord, NoCoord, U64Zero, U64Zero)

\* Ok(true)
OkTrue == [Result("Ok", "", NoCoord, NoCoord, U64Zero, U64Zero) EXCEPT !.value = TRUE]

\* an error that carries no field
Err(kind) == Result(kind, "", NoCoord, NoCoord, U64Zero, U64Zero)

\* the thread panicked: the call returns no Result at all
Panic == Result("Panic", "", NoCoord, NoCoord, U64Zero, U64Zero)

EmptyOffsetError(tx, ty) == Result("EmptyOffsetError", "", tx, ty, U64Zero, U64Zero)

BlockOffsetError(band_name, tx, ty) ==
    Result("BlockOffsetError", band_name, tx, ty, U64Zero, U64Zero)

LeaderSizeError(band_name, tx, ty, leader_size, byte_count) ==
    Result("LeaderSizeError", band_name, tx, ty, leader_size, byte_count)

TrailerBytesError(band_name, tx, ty) ==
    Result("TrailerBytesError", band_name, tx, ty, U64Zero, U64Zero)

IsOk(r) == r.kind = "Ok"

-----------------------------------------------------------------------------
(* The byte accessor, src/src/vsi.rs *)

\* no handle yet
NoFile == [state |-> "none", opens |-> 0, closes |-> 0, stale_use |-> FALSE,
           close_failed |-> FALSE]

\* any call on the raw handle: using it when it is not open is a use of a
\* freed handle
Touch(h) == [h EXCEPT !.stale_use = @ \/ h.state # "open"]

\* VSIFile::vsi_fopenl: a null handle is OpenError
vsi_fopenl(h, open_ok) ==
    IF open_ok
    THEN [f |-> [h EXCEPT !.state = "open", !.opens = @ + 1], err |-> "none"]
    ELSE [f |-> h, err |-> "OpenError"]

\* VSIFile::vsi_fclosel: VSIFCloseL releases the handle whatever it returns
vsi_fclosel(h, close_ok) ==
    [f |-> [Touch(h) EXCEPT !.state = "closed", !.closes = @ + 1,
                            !.close_failed = @ \/ ~close_ok],
     err |-> IF close_ok THEN "none" ELSE "CloseError"]

\* vsi_fseekl without its vsi_fclosel call: the failed seek leaves the handle open
vsi_fseekl_keeps_open(h, seek_ok, close_ok) ==
    [f |-> Touch(h), err |-> IF seek_ok THEN "none" ELSE "SeekError"]

\* VSIFile::vsi_fseekl: a failed seek closes the handle, and the close's own
\* error, if any, is the one returned
vsi_fseekl(h, seek_ok, close_ok) ==
    IF seek_ok THEN [f |-> Touch(h), err |-> "none"]
    ELSE [vsi_fclosel(Touch(h), close_ok)
             EXCEPT !.err = IF @ # "none" THEN @ ELSE "SeekError"]

\* VSIFile::vsi_freadl: fewer bytes than the buffer holds is ReadError;
\* buf is the caller's buffer once filled
vsi_freadl(h, len, data) ==
    [f |-> Touch(h),
     err |-> IF Len(data) # len THEN "ReadError" ELSE "none",
     buf |-> IF Len(data) # len THEN <<>> ELSE data]

\* the rest of read_exact_at once vsi_fseekl has returned s: self.vsi_fseekl(offset)?
\* leaves on an error, self.vsi_freadl(buf)? follows otherwise
ReadAfterSeek(s, len, data) ==
    IF s.err # "none"
    THEN [f |-> s.f, err |-> s.err, buf |-> <<>>]
    ELSE vsi_freadl(s.f, len, data)

\* VSIFile::read_exact_at; env is what the file answers: seek_ok, close_ok
\* and the bytes available at the position
read_exact_at(h, len, env) ==
    ReadAfterSeek(vsi_fseekl(h, env.seek_ok, env.close_ok), len, env.data)

\* the answer of a file that is not asked
NoEnv == [seek_ok |-> TRUE, close_ok |-> TRUE, data |-> <<>>]

\* what one call of read_exact_at did, as seen from the file: where and how
\* much it read, whether the position is offset arithmetic that wrapped, what
\* the file answered and what the call returned
NoRead == [issued |-> FALSE, pos |-> U64Zero, len |-> 0, wrapped |-> FALSE,
           env |-> NoEnv, err |-> "none", buf |-> <<>>]

ReadAt(pos, len, wrapped, env, r) ==
    [issued |-> TRUE, pos |-> pos, len |-> len, wrapped |-> wrapped,
     env |-> env, err |-> r.err, buf |-> r.buf]

-----------------------------------------------------------------------------
(* The checks, src/src/validator.rs *)

\* byteorder::LittleEndian::read_u32(&buf) as u64
read_u32_le(buf) == <<0, 0, buf[3] + 256 * buf[4], buf[1] + 256 * buf[2]>>

\* _check_external_ovr looking at the first entry of the list only
_check_external_ovr_first_entry(file_list) ==
    IF file_list # <<>> /\ EndsWith(file_list[1], DotOvr)
    THEN Err("ExternalOvrError")
    ELSE OkTrue

_check_external_ovr(file_list) ==
    IF file_list # <<>> /\ \E i \in 1..Len(file_list) : EndsWith(file_list[i], DotOvr)
    THEN Err("ExternalOvrError")
    ELSE OkTrue

\* the image is larger than 512 in one direction
IsLarge(g) == g.x_size > 512 \/ g.y_size > 512

\* _check_main_band with the advisory turned into a failure
_check_main_band_advisory_fails(g, ovr_count) ==
    IF IsLarge(g) /\ ((g.block_x = g.x_size /\ g.block_x > 1024) \/ ovr_count = 0)
    THEN [res |-> Err("NotTiledError"), warn |-> FALSE]
    ELSE [res |-> OkTrue, warn |-> FALSE]

\* _check_main_band: res is the result, warn whether the advisory is printed
_check_main_band(g, ovr_count) ==
    IF IsLarge(g)
    THEN IF g.block_x = g.x_size /\ g.block_x > 1024
         THEN [res |-> Err("NotTiledError"), warn |-> FALSE]
         ELSE [res |-> OkTrue, warn |-> ovr_count = 0]
    ELSE [res |-> OkTrue, warn |-> FALSE]


Four == FromNat(4)

\* the guard of _check_leader_size
LeaderChecked(byte_count) == U64Gt(byte_count, Four)

\* the guard of _check_trailer_bytes
TrailerChecked(byte_count) == U64Ge(byte_count, Four)

\* leader_size != byte_count, both u64
LeaderMismatch(leader_size, byte_count) == leader_size # byte_count

\* left != right after buf.split_at(4)
TrailerMismatch(buf) == SubSeq(buf, 1, 4) # SubSeq(buf, 5, 8)

\* offset - 4: with overflow checks the subtraction panics below 4,
\* without them it wraps
LeaderPos(offset) == U64Sub(offset, Four)

\* offset + byte_count - 4, evaluated left to right: the sum may overflow
\* although the final value fits
TrailerPos(offset, byte_count) ==
    LET a == U64Add(offset, byte_count)
        d == U64Sub(a.val, Four)
    IN  [val |-> d.val,
         overflow |-> a.overflow \/ d.overflow,
         wrapped |-> a.overflow # d.overflow]

\* _check_leader_size once read_exact_at has returned r: the read's error,
\* or the comparison of the little-endian leader with byte_count
LeaderRead(r, band_name, tx, ty, byte_count) ==
    IF r.err # "none" THEN Err(r.err)
    ELSE IF LeaderMismatch(read_u32_le(r.buf), byte_count)
    THEN LeaderSizeError(band_name, tx, ty, read_u32_le(r.buf), byte_count)
    ELSE OkTrue

\* _check_leader_size from the read on; p is the position offset - 4
LeaderAt(p, r, band_name, tx, ty, byte_count, env) ==
    [res |-> LeaderRead(r, band_name, tx, ty, byte_count),
     f |-> r.f,
     read |-> ReadAt(p.val, 4, p.overflow, env, r)]

\* _check_leader_size; env is the file's answer to the one read it may issue
_check_leader_size(h, band_name, tx, ty, offset, byte_count, env, checks) ==
    IF LeaderChecked(byte_count)
    THEN IF LeaderPos(offset).overflow /\ checks
         THEN [res |-> Panic, f |-> h, read |-> NoRead]
         ELSE LeaderAt(LeaderPos(offset), read_exact_at(h, 4, env),
                       band_name, tx, ty, byte_count, env)
    ELSE [res |-> OkTrue, f |-> h, read |-> NoRead]

\* _check_trailer_bytes once read_exact_at has returned r: the read's error,
\* or the comparison of the two halves of the buffer
TrailerRead(r, band_name, tx, ty) ==
    IF r.err # "none" THEN Err(r.err)
    ELSE IF TrailerMismatch(r.buf) THEN TrailerBytesError(band_name, tx, ty)
    ELSE OkTrue

\* _check_trailer_bytes from the read on; p is the position
\* offset + byte_count - 4
TrailerAt(p, r, band_name, tx, ty, env) ==
    [res |-> TrailerRead(r, band_name, tx, ty),
     f |-> r.f,
     read |-> ReadAt(p.val, 8, p.wrapped, env, r)]

\* _check_trailer_bytes
_check_trailer_bytes(h, band_name, tx, ty, offset, byte_count, env, checks) ==
    IF TrailerChecked(byte_count)
    THEN IF TrailerPos(offset, byte_count).overflow /\ checks
         THEN [res |-> Panic, f |-> h, read |-> NoRead]
         ELSE TrailerAt(TrailerPos(offset, byte_count), read_exact_at(h, 8, env),
                        band_name, tx, ty, env)
    ELSE [res |-> OkTrue, f |-> h, read |-> NoRead]

\* a tag the band's TIFF metadata does not hold (metadata_item gives None)
NoTag == <<"None">>

TagZero == <<"0">>
TagTwo == <<"2">>
TagFour == <<"4">>
TagFive == <<"5">>
TagEight == <<"8">>
TagText == <<"a", "b", "c">>
\* 2^64 - 1
TagU64Max == <<"1", "8", "4", "4", "6", "7", "4", "4", "0", "7",
               "3", "7", "0", "9", "5", "5", "1", "6", "1", "5">>
\* 2^32 + 5
TagWide == <<"4", "2", "9", "4", "9", "6", "7", "3", "0", "1">>

\* what metadata_item may answer for BLOCK_OFFSET_x_y and for BLOCK_SIZE_x_y
OffsetTags == {NoTag, TagZero, TagTwo, TagEight, TagText, TagU64Max}

SizeTags == {NoTag, TagZero, TagFour, TagFive, TagWide}

\* i.parse::<u64>().unwrap_or(0) of every tag text, computed once
ParsedTags == [t \in OffsetTags \cup SizeTags |-> ParseOrZero(t)]

\* the u64 the code gets from a tag that is present
TagValue(t) == ParsedTags[t]

\* the tile before the first one of a band
NoTile == [visited |-> FALSE, x |-> NoCoord, y |-> NoCoord,
           offset_tag |-> NoTag, size_tag |-> NoTag,
           offset |-> U64Zero, byte_count |-> U64Zero, prev |-> U64Zero,
           order_checked |-> FALSE, leader |-> NoRead, trailer |-> NoRead]

\* the offset-order test of _validate_block
OutOfOrder(offset, last) == U64Lt(offset, last)

\* the record of a tile whose two tags have just been asked for
VisitedTile(tx, ty, prev, offset_tag, size_tag) ==
    [NoTile EXCEPT !.visited = TRUE, !.x = tx, !.y = ty, !.prev = prev,
                   !.offset_tag = offset_tag, !.size_tag = size_tag]

\* _validate_block once _check_trailer_bytes has returned t: its result is
\* the block's
AfterTrailer(t, t2) ==
    [res |-> t.res, f |-> t.f, tile |-> [t2 EXCEPT !.trailer = t.read]]

\* _validate_block once _check_leader_size has returned l: l's error leaves
\* the function, _check_trailer_bytes follows otherwise
AfterLeader(l, band_name, tx, ty, offset, byte_count, t1, env2, checks) ==
    IF ~IsOk(l.res)
    THEN [res |-> l.res, f |-> l.f, tile |-> [t1 EXCEPT !.leader = l.read]]
    ELSE AfterTrailer(_check_trailer_bytes(l.f, band_name, tx, ty, offset,
                                           byte_count, env2, checks),
                      [t1 EXCEPT !.leader = l.read])

\* _validate_block once both tags are parsed: the body of `if offset > 0`
BlockAt(h, band_name, tx, ty, last, offset, byte_count, t0, env1, env2, checks) ==
    IF U64Gt(offset, U64Zero)
    THEN IF OutOfOrder(offset, last)
         THEN [res |-> BlockOffsetError(band_name, tx, ty), f |-> h,
               tile |-> [t0 EXCEPT !.offset = offset, !.byte_count = byte_count,
                                   !.order_checked = TRUE]]
         ELSE AfterLeader(_check_leader_size(h, band_name, tx, ty, offset,
                                             byte_count, env1, checks),
                          band_name, tx, ty, offset, byte_count,
                          [t0 EXCEPT !.offset = offset, !.byte_count = byte_count,
                                     !.order_checked = TRUE],
                          env2, checks)
    ELSE [res |-> OkTrue, f |-> h,
          tile |-> [t0 EXCEPT !.offset = offset, !.byte_count = byte_count]]

\* _validate_block: offset_tag and size_tag are what metadata_item answers,
\* env1 and env2 what the file answers to the leader and the trailer read.
\* prev is the offset of the most recent non-sparse tile visited before this
\* one in the band (history, not read by the code).
_validate_block(h, band_name, tx, ty, last, prev, offset_tag, size_tag, env1, env2, checks) ==
    IF offset_tag = NoTag
    THEN [res |-> EmptyOffsetError(tx, ty), f |-> h,
          tile |-> VisitedTile(tx, ty, prev, offset_tag, size_tag)]
    ELSE IF size_tag = NoTag
    THEN [res |-> EmptyOffsetError(tx, ty), f |-> h,
          tile |-> VisitedTile(tx, ty, prev, offset_tag, size_tag)]
    ELSE BlockAt(h, band_name, tx, ty, last, TagValue(offset_tag), TagValue(size_tag),
                 VisitedTile(tx, ty, prev, offset_tag, size_tag), env1, env2, checks)

-----------------------------------------------------------------------------
(* What the backend and the file may answer *)

Drivers == {"GTiff", "PNG"}

FileTif == <<"a", ".", "t", "i", "f">>
FileOvr == <<"a", ".", "t", "i", "f", ".", "o", "v", "r">>
FileOvrTif == <<"a", ".", "o", "v", "r", ".", "t", "i", "f">>

FileLists == {<<>>, <<FileTif, FileOvr>>, <<FileOvrTif, FileTif>>}

Geom(x_size, y_size, block_x, block_y) ==
    [x_size |-> x_size, y_size |-> y_size, block_x |-> block_x, block_y |-> block_y]

NoGeom == Geom(0, 0, 1, 1)

\* full-width strips wider than 1024; 2 x 2 tiles of a large image; one tile
\* of a small image; full-width strips of a width that is not above 1024
MainGeoms == {Geom(2048, 600, 2048, 1), Geom(600, 600, 512, 512),
              Geom(256, 256, 256, 256), Geom(1024, 1, 1024, 1)}

OvrGeoms == {Geom(300, 150, 512, 512)}

\* the bytes before a tile: 5 little-endian, 5 big-endian, and a file that
\* ends too early
LeaderData == {<<5, 0, 0, 0>>, <<0, 0, 0, 5>>, <<5, 0>>}

\* the tile's last four bytes and the four after them
TrailerData == {<<1, 2, 3, 4, 1, 2, 3, 4>>, <<1, 2, 3, 4, 1, 2, 3, 5>>, <<1, 2, 3, 4>>}

ReadEnvs(data) ==
    {[seek_ok |-> TRUE, close_ok |-> TRUE, data |-> d] : d \in data}
    \cup {[seek_ok |-> FALSE, close_ok |-> c, data |-> <<>>] : c \in BOOLEAN}

-----------------------------------------------------------------------------
(* The run *)

NoDataset == [driver |-> "", file_list |-> <<>>, ovr_count |-> 0, main |-> NoGeom]

MainName == "Main resolution image"

\* the overview label counted from one
OvrName_from_one(i) == "overview_" \o ToString(i + 1)

\* format!("overview_{}", i)
OvrName(i) == "overview_" \o ToString(i)

\* a band in hand: its label, whether it is a band or the mask of one, its
\* overview index (-1 for the main band), its geometry, and the mask flags
\* the backend reported when it was asked
Band(name, role, ovr, geom) ==
    [name |-> name, role |-> role, ovr |-> ovr, geom |-> geom, mask_flags |-> {}]

\* GdalMaskFlags: what mask_flags() may answer
MaskFlags == {{"ALL_VALID"}, {"PER_DATASET"}}

\* GdalMaskFlags::is_per_dataset
is_per_dataset(flags) == "PER_DATASET" \in flags

NoBand == Band("", "none", NoCoord, NoGeom)

\* (size + block - 1) / block
Blocks(size, block) == (size + block - 1) \div block

XBlocks(g) == Blocks(g.x_size, g.block_x)

YBlocks(g) == Blocks(g.y_size, g.block_y)

\* last_offset as the next call of _validate_block receives it: the local
\* of _validate_band is passed by value and never assigned
NextLastOffset(last, offset) == last

Init ==
    /\ pc = "open"
    /\ outcome = Running
    /\ overflow_checks \in BOOLEAN
    /\ dst = NoDataset
    /\ f = NoFile
    /\ band = NoBand
    /\ x = 0
    /\ y = 0
    /\ last_offset = U64Zero
    /\ tile = NoTile
    /\ walked = <<>>
    /\ warned = FALSE

\* the run returns r
Return(r) == pc' = "done" /\ outcome' = r

\* Dataset::open(file_path)?
DatasetOpen ==
    /\ pc = "open"
    /\ \/ /\ Return(Err("GdalError"))
          /\ dst' = dst
       \/ /\ \E d \in Drivers : dst' = [dst EXCEPT !.driver = d]
          /\ pc' = "driver"
          /\ outcome' = outcome
    /\ UNCHANGED <<overflow_checks, f, band, x, y, last_offset, tile, walked, warned>>

\* dst.driver().short_name() != "GTiff"
CheckDriver ==
    /\ pc = "driver"
    /\ IF dst.driver # "GTiff"
       THEN Return(Err("NotGeoTIFFError"))
       ELSE pc' = "main_band" /\ outcome' = outcome
    /\ UNCHANGED <<overflow_checks, dst, f, band, x, y, last_offset, tile, walked, warned>>

\* dst.rasterband(1)?, main_band.overview_count()?, GDALGetFileList
GetMainBand ==
    /\ pc = "main_band"
    /\ \/ /\ Return(Err("GdalError"))
          /\ dst' = dst
       \/ /\ \E g \in MainGeoms, n \in 0..MaxOvr, fl \in FileLists :
                dst' = [dst EXCEPT !.main = g, !.ovr_count = n, !.file_list = fl]
          /\ pc' = "check_main_band"
          /\ outcome' = outcome
    /\ UNCHANGED <<overflow_checks, f, band, x, y, last_offset, tile, walked, warned>>

\* _check_main_band(main_band, ovr_count)?
CheckMainBand ==
    /\ pc = "check_main_band"
    /\ LET r == _check_main_band(dst.main, dst.ovr_count)
       IN  /\ warned' = r.warn
           /\ IF IsOk(r.res)
              THEN pc' = "check_external_ovr" /\ outcome' = outcome
              ELSE Return(r.res)
    /\ UNCHANGED <<overflow_checks, dst, f, band, x, y, last_offset, tile, walked>>

\* _check_external_ovr(file_list)?
CheckExternalOvr ==
    /\ pc = "check_external_ovr"
    /\ LET r == _check_external_ovr(dst.file_list)
       IN  IF IsOk(r)
           THEN pc' = "fopen" /\ outcome' = outcome
           ELSE Return(r)
    /\ UNCHANGED <<overflow_checks, dst, f, band, x, y, last_offset, tile, walked, warned>>

\* VSIFile::vsi_fopenl(file_path, ReadBinary)?, then the main band is walked
FOpen ==
    /\ pc = "fopen"
    /\ \E open_ok \in BOOLEAN :
          LET o == vsi_fopenl(f, open_ok)
          IN  /\ f' = o.f
              /\ IF o.err # "none"
                 THEN Return(Err(o.err)) /\ band' = band
                 ELSE /\ pc' = "band"
                      /\ outcome' = outcome
                      /\ band' = Band(MainName, "band", NoCoord, dst.main)
    /\ UNCHANGED <<overflow_checks, dst, x, y, last_offset, tile, walked, warned>>

\* where _validate goes once the band in hand is walked
AfterBand(b) == IF b.role = "band" THEN "mask" ELSE "ovr"

\* _validate_band up to the first tile
ValidateBand ==
    /\ pc = "band"
    /\ walked' = Append(walked, [name |-> band.name, role |-> band.role, ovr |-> band.ovr,
                                 mask_flags |-> band.mask_flags])
    /\ last_offset' = U64Zero
    /\ x' = 0
    /\ y' = 0
    /\ tile' = NoTile
    /\ pc' = IF XBlocks(band.geom) > 0 /\ YBlocks(band.geom) > 0
             THEN "block" ELSE AfterBand(band)
    /\ UNCHANGED <<outcome, overflow_checks, dst, f, band, warned>>

\* the offset of the most recent non-sparse tile visited so far in the band
PrevOffset ==
    IF tile.visited /\ U64Gt(tile.offset, U64Zero) THEN tile.offset ELSE tile.prev

\* the file answers only the reads that are issued: the answers to choose
\* from for the leader read and, given that one, for the trailer read
LeaderEnvs(ot, st) ==
    IF _validate_block(f, band.name, x, y, last_offset, PrevOffset,
                       ot, st, NoEnv, NoEnv, overflow_checks).tile.leader.issued
    THEN ReadEnvs(LeaderData) ELSE {NoEnv}

TrailerEnvs(ot, st, e1) ==
    IF _validate_block(f, band.name, x, y, last_offset, PrevOffset,
                       ot, st, e1, NoEnv, overflow_checks).tile.trailer.issued
    THEN ReadEnvs(TrailerData) ELSE {NoEnv}

\* one pass through the loop body of _validate_band: _validate_block(...)?
ValidateBlock ==
    /\ pc = "block"
    /\ \E ot \in OffsetTags, st \in SizeTags :
        \E e1 \in LeaderEnvs(ot, st) :
        \E e2 \in TrailerEnvs(ot, st, e1) :
        \E r \in {_validate_block(f, band.name, x, y, last_offset, PrevOffset,
                                  ot, st, e1, e2, overflow_checks)} :
              /\ f' = r.f
              /\ tile' = r.tile
              /\ IF ~IsOk(r.res)
                 THEN /\ Return(r.res)
                      /\ UNCHANGED <<x, y, last_offset>>
                 ELSE /\ outcome' = outcome
                      /\ last_offset' = NextLastOffset(last_offset, r.tile.offset)
                      /\ IF x + 1 < XBlocks(band.geom)
                         THEN x' = x + 1 /\ y' = y /\ pc' = "block"
                         ELSE IF y + 1 < YBlocks(band.geom)
                         THEN x' = 0 /\ y' = y + 1 /\ pc' = "block"
                         ELSE UNCHANGED <<x, y>> /\ pc' = AfterBand(band)
    /\ UNCHANGED <<overflow_checks, dst, band, walked, warned>>

\* _validate_mask_band: band.mask_flags()?.is_per_dataset(), open_mask_band()?
ValidateMaskBand ==
    /\ pc = "mask"
    /\ \/ /\ Return(Err("GdalError"))
          /\ band' = band
       \/ \E flags \in MaskFlags :
             /\ outcome' = outcome
             /\ IF is_per_dataset(flags)
                THEN /\ band' = [Band(band.name, "mask", band.ovr, band.geom)
                                    EXCEPT !.mask_flags = flags]
                     /\ pc' = "band"
                ELSE /\ band' = [band EXCEPT !.mask_flags = flags]
                     /\ pc' = "ovr"
    /\ UNCHANGED <<overflow_checks, dst, f, x, y, last_offset, tile, walked, warned>>

\* the loop head of _validate_ovr: band.overview(i)?, or the loop is over
ValidateOvr ==
    /\ pc = "ovr"
    /\ LET i == band.ovr + 1
       IN  IF i < dst.ovr_count
           THEN \/ /\ Return(Err("GdalError"))
                   /\ band' = band
                \/ /\ \E g \in OvrGeoms : band' = Band(OvrName(i), "band", i, g)
                   /\ pc' = "band"
                   /\ outcome' = outcome
           ELSE /\ pc' = "fclose"
                /\ outcome' = outcome
                /\ band' = band
    /\ UNCHANGED <<overflow_checks, dst, f, x, y, last_offset, tile, walked, warned>>

\* f.vsi_fclosel()?, Ok(true)
FClose ==
    /\ pc = "fclose"
    /\ \E close_ok \in BOOLEAN :
          LET c == vsi_fclosel(f, close_ok)
          IN  /\ f' = c.f
              /\ Return(IF c.err # "none" THEN Err(c.err) ELSE OkTrue)
    /\ UNCHANGED <<overflow_checks, dst, band, x, y, last_offset, tile, walked, warned>>

Next ==
    \/ DatasetOpen
    \/ CheckDriver
    \/ GetMainBand
    \/ CheckMainBand
    \/ CheckExternalOvr
    \/ FOpen
    \/ ValidateBand
    \/ ValidateBlock
    \/ ValidateMaskBand
    \/ ValidateOvr
    \/ FClose

Spec == Init /\ [][Next]_vars

-----------------------------------------------------------------------------
(* Properties *)

Done == pc = "done"

Positive(u) == U64Gt(u, U64Zero)

\* the tile in hand is non-sparse and got past the offset-order test
OrderPassed ==
    /\ tile.visited
    /\ tile.order_checked
    /\ outcome.kind # "BlockOffsetError"

\* four bytes as an unsigned little-endian number
LittleEndian32(b) == <<0, 0, 256 * b[4] + b[3], 256 * b[2] + b[1]>>

\* some entry of the list ends in ".ovr"
HasOvrEntry(fl) ==
    \E i \in 1..Len(fl) :
        /\ Len(fl[i]) >= 4
        /\ fl[i][Len(fl[i]) - 3] = "."
        /\ fl[i][Len(fl[i]) - 2] = "o"
        /\ fl[i][Len(fl[i]) - 1] = "v"
        /\ fl[i][Len(fl[i])] = "r"

\* the untiled condition of the main-band structural check
Untiled(g) ==
    /\ g.x_size > 512 \/ g.y_size > 512
    /\ g.block_x = g.x_size
    /\ g.x_size > 1024

\* C1: a tile whose offset is > 0 and smaller than the offset of the most
\* recent non-sparse tile visited before it in the band makes validation fail
\* with BlockOffsetError carrying the band name and the tile's (x, y).
C1_OffsetOrder ==
    (tile.visited /\ Positive(tile.offset) /\ U64Lt(tile.offset, tile.prev))
        => outcome = BlockOffsetError(band.name, tile.x, tile.y)

\* C2: a run that opened the handle has closed it exactly once when it
\* returns, on every exit path; no run ends with the handle open and no run
\* opens more than one handle.
C2_ClosedOnce ==
    /\ f.opens <= 1
    /\ (Done /\ f.opens = 1) => (f.state = "closed" /\ f.closes = 1)

C4_Leader ==
    OrderPassed =>
        IF U64Gt(tile.byte_count, FromNat(4))
        THEN /\ tile.leader.issued
             /\ tile.leader.len = 4
             /\ ~tile.leader.wrapped
             /\ ~U64Lt(tile.offset, FromNat(4))
             /\ tile.leader.pos = U64Sub(tile.offset, FromNat(4)).val
             /\ tile.leader.err = "none" =>
                  LET v == LittleEndian32(tile.leader.buf)
                  IN  (v # tile.byte_count) <=>
                      (outcome = LeaderSizeError(band.name, tile.x, tile.y,
                                                 v, tile.byte_count))
        ELSE /\ ~tile.leader.issued
             /\ outcome.kind # "LeaderSizeError"

\* the leader check of the tile in hand passed
LeaderPassed ==
    /\ OrderPassed
    /\ outcome.kind # "LeaderSizeError"
    /\ U64Gt(tile.byte_count, FromNat(4)) =>
          /\ tile.leader.issued
          /\ tile.leader.err = "none"

\* C5: for a non-sparse tile whose leader check passed, byte_count >= 4
\* means exactly 8 bytes are read at offset + byte_count - 4 and the outcome
\* is TrailerBytesError (band, x, y) if and only if the first four differ
\* from the last four; byte_count < 4 means no trailer read.
C5_Trailer ==
    LeaderPassed =>
        IF ~U64Lt(tile.byte_count, FromNat(4))
        THEN LET tail == U64Sub(tile.byte_count, FromNat(4)).val
                 at == U64Add(tile.offset, tail)
             IN  /\ tile.trailer.issued
                 /\ tile.trailer.len = 8
                 /\ ~at.overflow
                 /\ tile.trailer.pos = at.val
                 /\ tile.trailer.err = "none" =>
                      LET b == tile.trailer.buf
                      IN  (<<b[1], b[2], b[3], b[4]>> # <<b[5], b[6], b[7], b[8]>>) <=>
                          (outcome = TrailerBytesError(band.name, tile.x, tile.y))
        ELSE ~tile.trailer.issued

\* the label the walk gives to the band of overview index i (-1: main band)
LabelOf(i) ==
    CASE i = 0 - 1 -> "Main resolution image"
      [] i = 0 -> "overview_0"
      [] i = 1 -> "overview_1"
      [] i = 2 -> "overview_2"
      [] OTHER -> "overview_3"

\* C6: the bands are walked in the order main band, its mask (only when the
\* flags are per-dataset), then overview 0, its mask, overview 1, its mask,
\* ...; the run stops at the first failure, in the band it was found in; a
\* failure that names a band names "Main resolution image" for the main band
\* and its mask and "overview_i" for overview i and its mask; a run that
\* succeeds has walked every overview.
C6_WalkOrder ==
    /\ \A k \in 1..Len(walked) :
          /\ walked[k].name = LabelOf(walked[k].ovr)
          /\ walked[k].role \in {"band", "mask"}
          /\ walked[k].role = "mask" => "PER_DATASET" \in walked[k].mask_flags
          /\ k = 1 => (walked[k].role = "band" /\ walked[k].ovr = 0 - 1)
          /\ k > 1 =>
               IF walked[k].role = "mask"
               THEN walked[k - 1].role = "band" /\ walked[k - 1].ovr = walked[k].ovr
               ELSE walked[k].ovr = walked[k - 1].ovr + 1
          /\ walked[k].ovr < dst.ovr_count
    /\ (walked # <<>> /\ pc # "band") =>
          /\ walked[Len(walked)].role = band.role
          /\ walked[Len(walked)].ovr = band.ovr
    /\ outcome.band_name # "" =>
          /\ Done
          /\ outcome.band_name = LabelOf(band.ovr)
          /\ <<outcome.x, outcome.y>> = <<tile.x, tile.y>>
    /\ outcome = OkTrue =>
          /\ walked # <<>>
          /\ walked[Len(walked)].ovr = dst.ovr_count - 1
    /\ ~Done => outcome = Running

\* C6 witness: a corrupt trailer in the mask of overview 0, found after the
\* main band, its mask and overview 0 were walked
C6_Witness ==
    /\ Done
    /\ outcome.kind = "TrailerBytesError"
    /\ outcome.band_name = "overview_0"
    /\ band.role = "mask"
    /\ Len(walked) = 4

\* an accessor call of the tile in hand failed
AccessFailed ==
    \/ tile.leader.issued /\ tile.leader.err # "none"
    \/ tile.trailer.issued /\ tile.trailer.err # "none"

\* the tile in hand has no leader or no trailer inside the u64 range
NoRoomForMarkers ==
    \/ U64Gt(tile.byte_count, FromNat(4)) /\ U64Lt(tile.offset, FromNat(4))
    \/ /\ ~U64Lt(tile.byte_count, FromNat(4))
       /\ U64Add(tile.offset, tile.byte_count).overflow

\* C7: a run returns Ok(true) unless the driver is not GTiff, a file list
\* entry ends in ".ovr", the main band is untiled, a tag of the tile in hand
\* is missing, its offset is below an earlier one, its leader differs from
\* byte_count, its trailer differs from its last four bytes, its markers do
\* not fit the file's address range, or a backend or accessor call failed;
\* the advisory changes nothing, and Ok(false) is never returned.
C7_Complete ==
    /\ outcome.kind = "Ok" => outcome = OkTrue
    /\ Done =>
        CASE outcome.kind = "Ok" -> TRUE
          [] outcome.kind = "GdalError" -> TRUE
          [] outcome.kind = "NotGeoTIFFError" -> dst.driver # "GTiff"
          [] outcome.kind = "NotTiledError" -> Untiled(dst.main)
          [] outcome.kind = "ExternalOvrError" -> HasOvrEntry(dst.file_list)
          [] outcome.kind = "OpenError" -> f.opens = 0
          [] outcome.kind = "EmptyOffsetError" ->
                tile.visited /\ (tile.offset_tag = NoTag \/ tile.size_tag = NoTag)
          [] outcome.kind = "BlockOffsetError" ->
                tile.visited /\ U64Lt(tile.offset, tile.prev)
          [] outcome.kind = "LeaderSizeError" ->
                /\ tile.leader.issued
                /\ LittleEndian32(tile.leader.buf) # tile.byte_count
          [] outcome.kind = "TrailerBytesError" ->
                /\ tile.trailer.issued
                /\ \E i \in 1..4 : tile.trailer.buf[i] # tile.trailer.buf[i + 4]
          [] outcome.kind \in {"SeekError", "ReadError"} -> AccessFailed
          [] outcome.kind = "CloseError" -> f.close_failed
          [] outcome.kind = "Panic" -> tile.visited /\ NoRoomForMarkers
          [] OTHER -> FALSE

\* C7 witness: a large image without overviews passes, the advisory printed
C7_Witness ==
    /\ Done
    /\ outcome = OkTrue
    /\ warned
    /\ dst.ovr_count = 0
    /\ tile.visited

\* a seek of the tile in hand failed
SeekFailed ==
    \/ tile.leader.issued /\ ~tile.leader.env.seek_ok
    \/ tile.trailer.issued /\ ~tile.trailer.env.seek_ok

\* the file's answer to the close that the failed seek triggers
SeekCloseOk ==
    IF tile.leader.issued /\ ~tile.leader.env.seek_ok
    THEN tile.leader.env.close_ok
    ELSE tile.trailer.env.close_ok

\* the handle was released once and never touched outside its open state
ClosedOnceUntouched ==
    /\ f.state = "closed"
    /\ f.closes = 1
    /\ ~f.stale_use

\* C8 as stated: a failed seek closes the handle first, the run returns
\* SeekError, and the handle is not used or closed again.
C8_SeekError ==
    SeekFailed =>
        /\ Done
        /\ outcome = Err("SeekError")
        /\ ClosedOnceUntouched

\* C8 amended: a failed seek closes the handle first and the handle is not
\* used or closed again; the run returns SeekError when that close succeeded
\* and CloseError when the close failed too.
C8_SeekThenClose ==
    /\ ~f.stale_use
    /\ f.closes <= 1
    /\ SeekFailed =>
        /\ Done
        /\ outcome = Err(IF SeekCloseOk THEN "SeekError" ELSE "CloseError")
        /\ ClosedOnceUntouched

\* C8 witness: the seek of a trailer read failed and the run returned SeekError
C8_Witness ==
    /\ tile.trailer.issued
    /\ ~tile.trailer.env.seek_ok
    /\ outcome = Err("SeekError")
    /\ f.state = "closed"

\* the text is a decimal numeral of value zero
IsZeroNumeral(t) == t # <<>> /\ \A i \in 1..Len(t) : t[i] = "0"

\* the tile in hand was skipped as a sparse tile
TreatedAsSparse ==
    /\ tile.visited
    /\ ~tile.order_checked
    /\ ~tile.leader.issued
    /\ ~tile.trailer.issued
    /\ outcome.kind # "EmptyOffsetError"

\* C9: a tile is skipped as sparse if and only if both its tags are present
\* and its recorded offset is 0; a tile with a missing tag fails with
\* EmptyOffsetError (x, y); no other tag content is skipped as sparse.
C9_Sparse ==
    tile.visited =>
        /\ TreatedAsSparse <=>
              /\ tile.offset_tag # NoTag
              /\ tile.size_tag # NoTag
              /\ IsZeroNumeral(tile.offset_tag)
        /\ (tile.offset_tag = NoTag \/ tile.size_tag = NoTag)
              => outcome = EmptyOffsetError(tile.x, tile.y)

\* C10: no position handed to the accessor comes from arithmetic that left
\* the u64 range, and every run returns a Result.
C10_NoWrap ==
    /\ outcome.kind # "Panic"
    /\ ~tile.leader.wrapped
    /\ ~tile.trailer.wrapped


====
